---- MODULE Spec2Model ----
(***************************************************************************)
(* Model of the Wolfi CUDA image builder (src/main.py): the tag deriver    *)
(* get_image_reference, the per-image coroutine build_and_publish_image    *)
(* and the matrix orchestrator main().                                     *)
(*                                                                         *)
(* Python strings are sequences of one-character strings, so that split,   *)
(* rsplit, join and the f-strings are computed character by character.     *)
(* The build engine (dagger) is the environment: every awaited             *)
(* container.publish(dest) either is acknowledged or raises an Exception   *)
(* whose text is one of Causes.                                            *)
(***************************************************************************)
EXTENDS Integers, Sequences, FiniteSets, TLC

\* ------------------------------------------------------------------ bounds
\* Largest number of matrix cells one modelled run dispatches.
MaxTasks == 4

\* ------------------------------------------------------- Python primitives
\* Python's None (distinct from every character string, "" included).
None == <<"<None>">>

\* Mutant of Truthy: an "is not None" test, which lets "" through.
Truthy_NotNone(s) == s # None

\* None where a list of strings is expected (Optional[List[str]]); it differs
\* from every list of platform strings, the empty list included.
NoneList == <<None>>

\* Truthiness of an Optional[str]: None and "" are falsy.
Truthy(s) == s # None /\ s # <<>>

\* a or b
Or(a, b) == IF Truthy(a) THEN a ELSE b

\* str.split(sep) for a one-character separator.
RECURSIVE Split(_, _)
Split(s, sep) ==
    IF \E i \in 1..Len(s) : s[i] = sep
    THEN LET i == CHOOSE k \in 1..Len(s) :
                     s[k] = sep /\ \A j \in 1..(k - 1) : s[j] # sep
         IN  <<SubSeq(s, 1, i - 1)>> \o Split(SubSeq(s, i + 1, Len(s)), sep)
    ELSE <<s>>

\* str.rsplit(sep, 1) for a one-character separator.
RSplit1(s, sep) ==
    IF \E i \in 1..Len(s) : s[i] = sep
    THEN LET i == CHOOSE k \in 1..Len(s) :
                     s[k] = sep /\ \A j \in (k + 1)..Len(s) : s[j] # sep
         IN  <<SubSeq(s, 1, i - 1), SubSeq(s, i + 1, Len(s))>>
    ELSE <<s>>

\* sep.join(parts)
RECURSIVE Join(_, _)
Join(parts, sep) ==
    IF Len(parts) = 0 THEN <<>>
    ELSE IF Len(parts) = 1 THEN parts[1]
    ELSE parts[1] \o sep \o Join(Tail(parts), sep)

\* str.lower() on the letters the environment values use.
LowerChar(c) ==
    CASE c = "T" -> "t" [] c = "R" -> "r" [] c = "U" -> "u" [] c = "E" -> "e"
      [] c = "F" -> "f" [] c = "A" -> "a" [] c = "L" -> "l" [] c = "S" -> "s"
      [] OTHER -> c

Lower(s) == [i \in 1..Len(s) |-> LowerChar(s[i])]

\* ------------------------------------------------------ build configuration
OS_VERSIONS == << <<"w","o","l","f","i">> >>

CUDA_VERSIONS == << <<"1","2",".","4",".","1">>, <<"1","2",".","6",".","0">> >>

PYTHON_VERSIONS == << <<"3",".","1","1">>, <<"3",".","1","2">> >>

PLATFORMS == << <<"l","i","n","u","x","/","a","m","d","6","4">>,
                <<"l","i","n","u","x","/","a","r","m","6","4">> >>

\* The dict FRAMEWORK_CONFIGS in insertion order: <<tag_name, packages>>.
FRAMEWORK_CONFIGS ==
    << << <<"b","a","s","e">>, <<>> >>,
       << <<"p","y","t","o","r","c","h">>, <<"p","y","t","o","r","c","h">> >>,
       << <<"t","e","n","s","o","r","f","l","o","w">>,
          <<"t","e","n","s","o","r","f","l","o","w">> >> >>

\* --------------------------------------------------------------- tag deriver
\* Mutant of get_image_reference: the CUDA version is cut to its major number.
get_image_reference_TruncCuda(os_version, cuda_version, framework, python_version, platform) ==
    LET base_ref == os_version \o <<"_","p","y","t","h","o","n","_">>
                    \o python_version \o <<"_","c","u","d","a","_">>
                    \o Split(cuda_version, ".")[1] \o <<"_">> \o framework
    IN  IF Truthy(platform)
        THEN LET parts == Split(platform, "/")
             IN  base_ref \o <<"_">> \o parts[Len(parts)]
        ELSE base_ref

\* Mutant of get_image_reference: the first component of the platform is
\* taken in place of the last.
get_image_reference_FirstPart(os_version, cuda_version, framework, python_version, platform) ==
    LET base_ref == os_version \o <<"_","p","y","t","h","o","n","_">>
                    \o python_version \o <<"_","c","u","d","a","_">>
                    \o cuda_version \o <<"_">> \o framework
    IN  IF Truthy(platform)
        THEN base_ref \o <<"_">> \o Split(platform, "/")[1]
        ELSE base_ref

get_image_reference(os_version, cuda_version, framework, python_version, platform) ==
    LET base_ref == os_version \o <<"_","p","y","t","h","o","n","_">>
                    \o python_version \o <<"_","c","u","d","a","_">>
                    \o cuda_version \o <<"_">> \o framework
    IN  IF Truthy(platform)
        THEN LET parts == Split(platform, "/")
                 arch  == parts[Len(parts)]
             IN  base_ref \o <<"_">> \o arch
        ELSE base_ref

\* str(n) for a natural number.
RECURSIVE Str(_)
Str(n) ==
    LET digit(d) == <<"0","1","2","3","4","5","6","7","8","9">>[d + 1]
    IN  IF n < 10 THEN <<digit(n)>> ELSE Str(n \div 10) \o <<digit(n % 10)>>

\* A logger call: the level, the f-string's template, the interpolated values.
LogLine(level, fmt, args) == [level |-> level, fmt |-> fmt, args |-> args]

\* ------------------------------------------------------------- environment
\* Texts of the exceptions the build engine raises from container.publish.
Causes == { <<"a","u","t","h">>, <<"p","u","s","h">> }

\* Values of the result list of asyncio.gather: a coroutine's return value
\* (None) or the exception it raised.
PyNone == [type |-> "NoneType", msg |-> <<>>]

Exception(msg) == [type |-> "Exception", msg |-> msg]

UserValue == <<"u","s","r">>

TokenValue == <<"t","o","k">>

\* The environments a run is modelled in: each credential is absent, empty or
\* set under its upper-case name, and absent or set under its lower-case name
\* (the lower-case name is set only when the upper-case one is not).
EnvChoices ==
    { e \in [ USERNAME   : {None, <<>>, UserValue},
              username   : {None, UserValue},
              PASSWORD   : {None, <<>>, TokenValue},
              password   : {None, TokenValue},
              MULTI_ARCH : {None, <<"T","r","u","e">>, <<"1">>},
              REPOSITORY : {None} ] :
        /\ e.USERNAME = UserValue => e.username = None
        /\ e.PASSWORD = TokenValue => e.password = None }

\* os.environ.get(name, default)
EnvGet(e, name, default) == IF e[name] = None THEN default ELSE e[name]

\* Non-empty leading parts of a configuration list.
Prefixes(xs) == { SubSeq(xs, 1, n) : n \in 1..Len(xs) }

\* The configured matrices a run is modelled on: leading parts of the four
\* configuration lists with at most MaxTasks cells.
MatrixChoices ==
    { m \in [ os : Prefixes(OS_VERSIONS), cuda : Prefixes(CUDA_VERSIONS),
              fw : Prefixes(FRAMEWORK_CONFIGS), py : Prefixes(PYTHON_VERSIONS) ] :
        Len(m.os) * Len(m.cuda) * Len(m.fw) * Len(m.py) <= MaxTasks }

VARIABLES
    env,          \* the process environment
    matrix,       \* the configured lists OS_VERSIONS .. PYTHON_VERSIONS
    pc,           \* position of main()
    cfg,          \* main's locals repository, username, password, platforms
    connection,   \* the dagger.Connection: "none", "open", "closed"
    tasks,        \* the coroutines handed to asyncio.gather, in list order
    results,      \* what asyncio.gather returned
    failures,     \* main's list failures
    mainLog,      \* main's logger output
    exitCode,     \* the process exit status, -1 while running
    call,         \* a direct call of a function: its name and argument lists
    ret           \* what the direct calls made so far returned

vars == <<env, matrix, pc, cfg, connection, tasks, results, failures,
          mainLog, exitCode, call, ret>>

\* ------------------------------------------------- build_and_publish_image
ghcr == <<"g","h","c","r",".","i","o">>

\* Mutant of ImageUri: the reference is left out of the destination.
ImageUri_NoRef(username, repository, ref) ==
    ghcr \o <<"/">> \o username \o <<"/">> \o repository

\* f"ghcr.io/{username}/{repository}:{ref}"
ImageUri(username, repository, ref) ==
    ghcr \o <<"/">> \o username \o <<"/">> \o repository \o <<":">> \o ref

\* The apk package list of lines 162-169.
PackageStr(python_version) ==
    Join(<< <<"p","y","t","h","o","n","-">> \o python_version,
            <<"p","y">> \o python_version \o <<"-","p","i","p">>,
            <<"c","u","r","l">>, <<"b","a","s","h">> >>, <<" ">>)

\* The conda package list of lines 172-178.
CondaPackagesStr(cuda_version, framework_packages) ==
    LET cuda_major == RSplit1(cuda_version, ".")[1]
        toolkit == <<"c","u","d","a","-","t","o","o","l","k","i","t","=">>
                   \o cuda_major
    IN  Join(IF framework_packages # <<>>
             THEN <<toolkit, framework_packages>>
             ELSE <<toolkit>>, <<" ">>)

\* Mutant of IsMultiPlatform: one platform already selects the loop.
IsMultiPlatform_AtLeastOne(platforms) ==
    platforms # NoneList /\ Len(platforms) >= 1

\* if platforms and len(platforms) > 1
IsMultiPlatform(platforms) == platforms # NoneList /\ Len(platforms) > 1

\* Mutant of LoopPlatform: the list is walked from its end.
LoopPlatform_Reversed(platforms, k) == platforms[Len(platforms) - k + 1]

\* The platform the k-th iteration of "for platform in platforms" handles.
LoopPlatform(platforms, k) == platforms[k]

\* build_container(...): the lazily built container specification.
build_container(package_str, conda_packages_str, framework, username, platform) ==
    [ platform |-> platform, package_str |-> package_str,
      conda_packages_str |-> conda_packages_str, title |-> framework,
      auth_user |-> username ]

\* A coroutine object build_and_publish_image(...) before it first runs.
NewTask(os_version, cuda_version, fwc, python_version, c) ==
    [ os_version |-> os_version, cuda_version |-> cuda_version,
      framework |-> fwc[1], framework_packages |-> fwc[2],
      python_version |-> python_version,
      repository |-> c.repository, username |-> c.username,
      password |-> c.password, platforms |-> c.platforms,
      pc |-> "new", img_ref |-> None, k |-> 0,
      attempts |-> <<>>, log |-> <<>>, exc |-> PyNone ]

\* One container.publish(dest) call: the container, the destination, the
\* state of the call ("pending", "ok" or "error") and the exception it raised.
Attempt(container, dest) ==
    [ container |-> container, dest |-> dest, state |-> "pending",
      error |-> PyNone ]

\* The body of one loop iteration up to its await (lines 191-211).
PlatformAttempt(t, k) ==
    LET platform == LoopPlatform(t.platforms, k)
        container == build_container(PackageStr(t.python_version),
                        CondaPackagesStr(t.cuda_version, t.framework_packages),
                        t.framework, t.username, platform)
        platform_ref == get_image_reference(t.os_version, t.cuda_version,
                            t.framework, t.python_version, platform)
    IN  Attempt(container, ImageUri(t.username, t.repository, platform_ref))

\* The else branch up to its await (lines 217-231).
SingleAttempt(t, img_ref) ==
    LET platform == IF t.platforms # NoneList /\ Len(t.platforms) > 0
                    THEN t.platforms[1] ELSE None
        container == build_container(PackageStr(t.python_version),
                        CondaPackagesStr(t.cuda_version, t.framework_packages),
                        t.framework, t.username, platform)
    IN  Attempt(container, ImageUri(t.username, t.repository, img_ref))

\* The coroutine's first run, from line 154 to its first await.
RunToFirstAwait(t) ==
    LET img_ref == get_image_reference(t.os_version, t.cuda_version,
                       t.framework, t.python_version, None)
        building == LogLine("INFO", "Building image: {}", <<img_ref>>)
    IN  IF IsMultiPlatform(t.platforms)
        THEN [t EXCEPT !.pc = "publishing", !.img_ref = img_ref, !.k = 1,
                  !.log = <<building,
                            LogLine("INFO", "Building multi-platform image for: {}",
                                    t.platforms)>>,
                  !.attempts = <<PlatformAttempt(t, 1)>>]
        ELSE [t EXCEPT !.pc = "publishing", !.img_ref = img_ref,
                  !.log = <<building>>,
                  !.attempts = <<SingleAttempt(t, img_ref)>>]

\* The pending publish is acknowledged: the coroutine resumes after its await
\* and runs to the next await or to its return (lines 212-214, 232).
OnPublishAck(t) ==
    LET n == Len(t.attempts)
        done == [t EXCEPT !.attempts[n].state = "ok"]
        image_uri == ImageUri(t.username, t.repository, t.img_ref)
    IN  IF IsMultiPlatform(t.platforms)
        THEN LET published == LogLine("INFO", "Published platform-specific: {}",
                                      <<t.attempts[n].dest>>)
             IN  IF t.k < Len(t.platforms)
                 THEN [done EXCEPT !.k = t.k + 1,
                          !.log = Append(t.log, published),
                          !.attempts = Append(done.attempts,
                                              PlatformAttempt(t, t.k + 1))]
                 ELSE [done EXCEPT !.pc = "ok",
                          !.log = t.log \o <<published,
                              LogLine("INFO", "Successfully published multi-arch: {}",
                                      <<image_uri>>)>>]
        ELSE [done EXCEPT !.pc = "ok",
                 !.log = Append(t.log,
                     LogLine("INFO", "Successfully published: {}", <<image_uri>>))]

\* Mutant of OnPublishError: a failed architecture is logged and skipped, the
\* loop goes on with the next platform.
OnPublishError_Continue(t, cause) ==
    LET n == Len(t.attempts)
        failed == [t EXCEPT !.attempts[n].state = "error",
                      !.attempts[n].error = Exception(cause),
                      !.log = Append(t.log, LogLine("ERROR",
                                  "Failed to build {}: {}", <<t.img_ref, cause>>)),
                      !.exc = Exception(cause)]
    IN  IF IsMultiPlatform(t.platforms) /\ t.k < Len(t.platforms)
        THEN [failed EXCEPT !.k = t.k + 1,
                 !.attempts = Append(failed.attempts, PlatformAttempt(t, t.k + 1))]
        ELSE [failed EXCEPT !.pc = "failed"]

\* Mutant of OnPublishError: the except clause logs and does not re-raise, so
\* the coroutine returns None.
OnPublishError_Swallow(t, cause) ==
    [t EXCEPT !.pc = "ok",
        !.attempts[Len(t.attempts)].state = "error",
        !.attempts[Len(t.attempts)].error = Exception(cause),
        !.log = Append(t.log,
                    LogLine("ERROR", "Failed to build {}: {}", <<t.img_ref, cause>>))]

\* The pending publish raises Exception(cause): the except clause of lines
\* 234-236 logs and re-raises, which ends the coroutine.
OnPublishError(t, cause) ==
    [t EXCEPT !.pc = "failed",
        !.attempts[Len(t.attempts)].state = "error",
        !.attempts[Len(t.attempts)].error = Exception(cause),
        !.log = Append(t.log,
                    LogLine("ERROR", "Failed to build {}: {}", <<t.img_ref, cause>>)),
        !.exc = Exception(cause)]

\* ---------------------------------------------------------------------- main
DefaultRepository ==
    <<"w","o","l","f","i","-","c","u","d","a","-","b","a","s","e","-",
      "i","m","a","g","e">>

DefaultPlatforms == << <<"l","i","n","u","x","/","a","m","d","6","4">> >>

\* Mutant of CredentialsMissing: "and" in place of "or".
CredentialsMissing_And(username, password) == ~Truthy(username) /\ ~Truthy(password)

\* if not username or not password
CredentialsMissing(username, password) == ~Truthy(username) \/ ~Truthy(password)

\* The status of sys.exit at line 250 (credentials missing).
CredentialExitCode == 1

\* The status of a process whose main() returns.
SuccessExitCode == 0

\* Mutants of FailureExitCode: sys.exit() without a status, and a status of
\* its own for failed images.
FailureExitCode_Zero == SuccessExitCode

FailureExitCode_Distinct == CredentialExitCode + 1

\* The status of sys.exit at line 290 (some image failed).
FailureExitCode == 1

\* Mutant of Cells: the innermost for clause is missing, the first Python
\* version is used for every cell.
Cells_NoPythonLoop(m, c) ==
    LET nC == Len(m.cuda)
        nF == Len(m.fw)
        n  == Len(m.os) * nC * nF
    IN  [ i \in 1..n |->
            NewTask(m.os[((i - 1) \div (nC * nF)) + 1],
                    m.cuda[(((i - 1) \div nF) % nC) + 1],
                    m.fw[((i - 1) % nF) + 1],
                    m.py[1], c) ]

\* The list comprehension of lines 263-280: one coroutine per cell, in the
\* order of the nested for clauses (os, cuda, framework, python innermost).
Cells(m, c) ==
    LET nC == Len(m.cuda)
        nF == Len(m.fw)
        nP == Len(m.py)
        n  == Len(m.os) * nC * nF * nP
    IN  [ i \in 1..n |->
            NewTask(m.os[((i - 1) \div (nC * nF * nP)) + 1],
                    m.cuda[(((i - 1) \div (nF * nP)) % nC) + 1],
                    m.fw[(((i - 1) \div nP) % nF) + 1],
                    m.py[((i - 1) % nP) + 1], c) ]

\* Mutant of GatherDone: gather without return_exceptions, which completes
\* as soon as one awaitable raises.
GatherDone_FailFast(ts) ==
    \/ \E i \in 1..Len(ts) : ts[i].pc = "failed"
    \/ \A i \in 1..Len(ts) : ts[i].pc \in {"ok", "failed"}

\* asyncio.gather(*tasks, return_exceptions=True) completes when every
\* awaitable has finished, whether it returned or raised.
GatherDone(ts) == \A i \in 1..Len(ts) : ts[i].pc \in {"ok", "failed"}

\* Its result list: per awaitable, in list order, the return value or the
\* exception raised.
GatherResults(ts) ==
    [ i \in 1..Len(ts) |-> IF ts[i].pc = "failed" THEN ts[i].exc ELSE PyNone ]

\* Mutant of IsException: a test for one kind of engine error only.
IsException_OnlyPush(r) == r.type = "Exception" /\ r.msg = <<"p","u","s","h">>

\* isinstance(r, Exception)
IsException(r) == r.type = "Exception"

\* failures = [r for r in results if isinstance(r, Exception)]
Failures(rs) == SelectSeq(rs, IsException)

\* Mutant of FailureReport: the count without the per-failure lines.
FailureReport_CountOnly(fs) ==
    <<LogLine("ERROR", "{} image(s) failed to build", <<Str(Len(fs))>>)>>

\* The logger.error calls of lines 287-289.
FailureReport(fs) ==
    <<LogLine("ERROR", "{} image(s) failed to build", <<Str(Len(fs))>>)>>
    \o [ i \in 1..Len(fs) |-> LogLine("ERROR", "  - {}", <<fs[i].msg>>) ]

\* No function is called directly: the process runs main().
NoCall == [ fn |-> "main", args |-> <<>> ]

NoCfg == [ repository |-> None, username |-> None, password |-> None,
           platforms |-> NoneList ]

Init ==
    /\ env \in EnvChoices
    /\ matrix \in MatrixChoices
    /\ pc = "start"
    /\ cfg = NoCfg
    /\ connection = "none"
    /\ tasks = <<>>
    /\ results = <<>>
    /\ failures = <<>>
    /\ mainLog = <<>>
    /\ exitCode = -1
    /\ call = NoCall
    /\ ret = <<>>

\* Lines 241-260: read the environment, refuse to run without credentials,
\* choose the platforms.
CredentialGate ==
    /\ pc = "start"
    /\ LET repository == EnvGet(env, "REPOSITORY", DefaultRepository)
           username == Or(env.USERNAME, env.username)
           password == Or(env.PASSWORD, env.password)
           enable_multi_arch ==
               Lower(EnvGet(env, "MULTI_ARCH", <<"f","a","l","s","e">>))
                   = <<"t","r","u","e">>
           platforms_to_build ==
               IF enable_multi_arch THEN PLATFORMS ELSE DefaultPlatforms
       IN  IF CredentialsMissing(username, password)
           THEN /\ mainLog' = Append(mainLog, LogLine("ERROR",
                     "Environment variables 'USERNAME' and 'PASSWORD' are required.",
                     <<>>))
                /\ exitCode' = CredentialExitCode
                /\ pc' = "exited"
                /\ UNCHANGED cfg
           ELSE /\ cfg' = [ repository |-> repository, username |-> username,
                            password |-> password,
                            platforms |-> platforms_to_build ]
                /\ mainLog' = mainLog \o
                     << LogLine("INFO", "Starting build process for repository: {}",
                                <<repository>>),
                        LogLine("INFO", "Platforms: {}", platforms_to_build),
                        LogLine("INFO", "Multi-arch enabled: {}",
                                <<IF enable_multi_arch THEN <<"T","r","u","e">>
                                  ELSE <<"F","a","l","s","e">> >>) >>
                /\ pc' = "connect"
                /\ UNCHANGED exitCode
    /\ UNCHANGED <<call, ret>>
    /\ UNCHANGED <<env, matrix, connection, tasks, results, failures>>

\* Line 262: async with dagger.Connection(...) as client.
Connect ==
    /\ pc = "connect"
    /\ connection' = "open"
    /\ pc' = "dispatch"
    /\ UNCHANGED <<call, ret>>
    /\ UNCHANGED <<env, matrix, cfg, tasks, results, failures, mainLog, exitCode>>

\* Lines 263-282: build the coroutines and await asyncio.gather on them.
Dispatch ==
    /\ pc = "dispatch"
    /\ tasks' = Cells(matrix, cfg)
    /\ pc' = "gather"
    /\ UNCHANGED <<call, ret>>
    /\ UNCHANGED <<env, matrix, cfg, connection, results, failures, mainLog,
                   exitCode>>

\* The event loop runs a coroutine for the first time.
TaskStart(i) ==
    /\ exitCode = -1
    /\ tasks[i].pc = "new"
    /\ tasks' = [tasks EXCEPT ![i] = RunToFirstAwait(tasks[i])]
    /\ UNCHANGED <<call, ret>>
    /\ UNCHANGED <<env, matrix, pc, cfg, connection, results, failures, mainLog,
                   exitCode>>

\* The engine acknowledges the publish a coroutine awaits.
PublishAck(i) ==
    /\ exitCode = -1
    /\ tasks[i].pc = "publishing"
    /\ tasks' = [tasks EXCEPT ![i] = OnPublishAck(tasks[i])]
    /\ UNCHANGED <<call, ret>>
    /\ UNCHANGED <<env, matrix, pc, cfg, connection, results, failures, mainLog,
                   exitCode>>

\* Mutant of PublishError: the first failure cancels the coroutines that are
\* still running, as a task group does.
PublishError_CancelSiblings(i, cause) ==
    /\ exitCode = -1
    /\ tasks[i].pc = "publishing"
    /\ tasks' = [ j \in 1..Len(tasks) |->
                    IF j = i THEN OnPublishError(tasks[i], cause)
                    ELSE IF tasks[j].pc \in {"new", "publishing"}
                    THEN [tasks[j] EXCEPT !.pc = "failed",
                             !.exc = Exception(<<"c","a","n","c","e","l">>)]
                    ELSE tasks[j] ]
    /\ UNCHANGED <<call, ret>>
    /\ UNCHANGED <<env, matrix, pc, cfg, connection, results, failures, mainLog,
                   exitCode>>

\* The publish a coroutine awaits raises.
PublishError(i, cause) ==
    /\ exitCode = -1
    /\ tasks[i].pc = "publishing"
    /\ tasks' = [tasks EXCEPT ![i] = OnPublishError(tasks[i], cause)]
    /\ UNCHANGED <<call, ret>>
    /\ UNCHANGED <<env, matrix, pc, cfg, connection, results, failures, mainLog,
                   exitCode>>

\* Lines 282-285: gather returns, the failures are filtered out.
GatherReturn ==
    /\ pc = "gather"
    /\ GatherDone(tasks)
    /\ results' = GatherResults(tasks)
    /\ failures' = Failures(GatherResults(tasks))
    /\ pc' = "check"
    /\ UNCHANGED <<call, ret>>
    /\ UNCHANGED <<env, matrix, cfg, connection, tasks, mainLog, exitCode>>

\* Lines 286-289: the failure report.
ReportFailures ==
    /\ pc = "check"
    /\ failures # <<>>
    /\ mainLog' = mainLog \o FailureReport(failures)
    /\ pc' = "sysexit"
    /\ UNCHANGED <<call, ret>>
    /\ UNCHANGED <<env, matrix, cfg, connection, tasks, results, failures,
                   exitCode>>

\* Line 290: sys.exit(1) leaves the async with block and ends the process.
ExitFailure ==
    /\ pc = "sysexit"
    /\ connection' = "closed"
    /\ exitCode' = FailureExitCode
    /\ pc' = "exited"
    /\ UNCHANGED <<call, ret>>
    /\ UNCHANGED <<env, matrix, cfg, tasks, results, failures, mainLog>>

\* Line 292: no failure, the block is left normally and main returns.
ExitSuccess ==
    /\ pc = "check"
    /\ failures = <<>>
    /\ connection' = "closed"
    /\ mainLog' = Append(mainLog, LogLine("INFO",
                     "All images built and published successfully!", <<>>))
    /\ exitCode' = SuccessExitCode
    /\ pc' = "exited"
    /\ UNCHANGED <<call, ret>>
    /\ UNCHANGED <<env, matrix, cfg, tasks, results, failures>>

Next ==
    \/ CredentialGate
    \/ Connect
    \/ Dispatch
    \/ \E i \in 1..Len(tasks) : TaskStart(i)
    \/ \E i \in 1..Len(tasks) : PublishAck(i)
    \/ \E i \in 1..Len(tasks) : \E cause \in Causes : PublishError(i, cause)
    \/ GatherReturn
    \/ ReportFailures
    \/ ExitFailure
    \/ ExitSuccess

Spec == Init /\ [][Next]_vars

TypeOK ==
    /\ pc \in {"start", "connect", "dispatch", "gather", "check", "sysexit", "exited"}
    /\ connection \in {"none", "open", "closed"}
    /\ exitCode \in {-1, 0, 1}

\* ------------------------------------------------------------------ helpers
\* The indices of the coroutines that ended by raising.
FailedSet == { i \in 1..Len(tasks) : tasks[i].pc = "failed" }

\* main has left the await of asyncio.gather.
Concluding == pc \in {"check", "sysexit", "exited"} /\ tasks # <<>>

\* Every publish of coroutine i was made and acknowledged.
PublishedAll(i) ==
    /\ Len(tasks[i].attempts) >= 1
    /\ \A k \in 1..Len(tasks[i].attempts) : tasks[i].attempts[k].state = "ok"

CountFmt == "{} image(s) failed to build"

\* An entry of the result list that is not a coroutine's return value.
IsFailureEntry(r) == r # PyNone

\* ------------------------------------------------------------------- claims
\* C1: main() does not leave asyncio.gather (so neither reports nor exits)
\* before every dispatched coroutine has ended, and every coroutine that did
\* not fail has made and completed all its publishes, whichever coroutines
\* failed and in whatever order the publishes were answered.
C1_CollectAll ==
    Concluding =>
        \A i \in 1..Len(tasks) :
            /\ tasks[i].pc \in {"ok", "failed"}
            /\ i \notin FailedSet => PublishedAll(i)

C1_Witness ==
    /\ pc = "exited"
    /\ \E i, j \in 1..Len(tasks) :
         /\ i < j
         /\ tasks[i].pc = "failed"
         /\ tasks[j].pc = "ok" /\ PublishedAll(j)

\* C2: the process ends with status 0 exactly when every dispatched coroutine
\* succeeded; one failed coroutine makes the status non-zero even when all
\* the others succeeded.
C2_ExitStatus ==
    exitCode # -1 =>
        /\ exitCode = 0 =>
              tasks # <<>> /\ \A i \in 1..Len(tasks) : tasks[i].pc = "ok"
        /\ (tasks # <<>> /\ \A i \in 1..Len(tasks) : tasks[i].pc = "ok")
              => exitCode = 0
        /\ FailedSet # {} => exitCode # 0

C2_Witness ==
    /\ exitCode = 1
    /\ Len(tasks) >= 2
    /\ Cardinality(FailedSet) = 1
    /\ \A i \in 1..Len(tasks) : i \notin FailedSet => tasks[i].pc = "ok"

\* C3: when some but not all of the N dispatched coroutines fail, the list
\* failures has exactly one entry per failed coroutine, the reported count is
\* that number, and the run ends with a non-zero status.
C3_FailureCount ==
    LET f == Cardinality(FailedSet)
    IN  (pc \in {"sysexit", "exited"} /\ 0 < f /\ f < Len(tasks)) =>
            /\ Len(failures) = f
            /\ \A i \in 1..Len(tasks) : IsFailureEntry(results[i]) <=> i \in FailedSet
            /\ \E n \in 1..Len(mainLog) :
                   mainLog[n].fmt = CountFmt /\ mainLog[n].args = <<Str(f)>>
            /\ pc = "exited" => exitCode \notin {-1, 0}

C3_Witness ==
    /\ pc = "exited"
    /\ Len(tasks) >= 3
    /\ Cardinality(FailedSet) = 2
    /\ \E i, j \in FailedSet : i # j /\ tasks[i].exc # tasks[j].exc

\* s has sub as a contiguous part.
Contains(s, sub) ==
    \E i \in 1..(Len(s) - Len(sub) + 1) : SubSeq(s, i, i + Len(sub) - 1) = sub

\* The last component of s when cut at the character sep.
LastPart(s, sep) ==
    LET cuts == { i \in 1..Len(s) : s[i] = sep }
        last == IF cuts = {} THEN 0
                ELSE CHOOSE i \in cuts : \A j \in cuts : j <= i
    IN  SubSeq(s, last + 1, Len(s))

\* Coroutine i runs in multi-platform mode.
Multi(i) == tasks[i].platforms # NoneList /\ Len(tasks[i].platforms) > 1

\* The destination of coroutine i's logical, un-qualified tag: the text
\* ghcr.io/{username}/{repository}:{os}_python_{py}_cuda_{cuda}_{framework}.
UnqualifiedDest(i) ==
    <<"g","h","c","r",".","i","o","/">> \o tasks[i].username \o <<"/">>
    \o tasks[i].repository \o <<":">> \o tasks[i].os_version
    \o <<"_","p","y","t","h","o","n","_">> \o tasks[i].python_version
    \o <<"_","c","u","d","a","_">> \o tasks[i].cuda_version
    \o <<"_">> \o tasks[i].framework

\* C4: a multi-platform coroutine whose per-architecture pushes all succeeded
\* also publishes to the un-qualified logical tag, and has succeeded only
\* once that publish was acknowledged.
C4_ManifestPublished ==
    \A i \in 1..Len(tasks) :
        (Multi(i) /\ tasks[i].pc = "ok") =>
            \E k \in 1..Len(tasks[i].attempts) :
                /\ tasks[i].attempts[k].dest = UnqualifiedDest(i)
                /\ tasks[i].attempts[k].state = "ok"

\* C5: in a multi-platform coroutine, once the push for platform k has
\* failed, no push for a later platform is made, nothing is published to the
\* un-qualified tag, and the coroutine is one failed task: it ended by
\* raising, and gather holds exactly one exception for it.
C5_FailFastPerImage ==
    \A i \in 1..Len(tasks) :
        Multi(i) =>
            \A k \in 1..Len(tasks[i].attempts) :
                tasks[i].attempts[k].state = "error" =>
                    /\ Len(tasks[i].attempts) = k
                    /\ tasks[i].attempts[k].container.platform = tasks[i].platforms[k]
                    /\ \A j \in 1..k : tasks[i].attempts[j].dest # UnqualifiedDest(i)
                    /\ tasks[i].pc = "failed"
                    /\ results # <<>> =>
                          /\ IsFailureEntry(results[i])
                          /\ Len(failures) = Cardinality(FailedSet)

C5_Witness ==
    /\ pc = "exited"
    /\ \E i, j \in 1..Len(tasks) :
         /\ Multi(i) /\ Multi(j)
         /\ Len(tasks[i].attempts) = 1 /\ tasks[i].attempts[1].state = "error"
         /\ Len(tasks[j].attempts) = 2 /\ tasks[j].attempts[1].state = "ok"
         /\ tasks[j].attempts[2].state = "error"

\* C6: inside one multi-platform coroutine the k-th push is the push for the
\* k-th configured platform, a push is started only when all earlier pushes
\* were acknowledged, and a publish to the un-qualified tag comes only after
\* every per-architecture push succeeded; the coroutine succeeds only after a
\* push for every platform.  Between distinct coroutines there is no order.
C6_PlatformOrder ==
    \A i \in 1..Len(tasks) :
        Multi(i) =>
            /\ \A k \in 1..Len(tasks[i].attempts) :
                 /\ k <= Len(tasks[i].platforms) =>
                       /\ tasks[i].attempts[k].container.platform = tasks[i].platforms[k]
                       /\ LastPart(tasks[i].attempts[k].dest, "_")
                              = LastPart(tasks[i].platforms[k], "/")
                 /\ \A j \in 1..(k - 1) : tasks[i].attempts[j].state = "ok"
                 /\ tasks[i].attempts[k].dest = UnqualifiedDest(i) =>
                       k > Len(tasks[i].platforms)
            /\ tasks[i].pc = "ok" =>
                 /\ Len(tasks[i].attempts) >= Len(tasks[i].platforms)
                 /\ \A k \in 1..Len(tasks[i].platforms) :
                        tasks[i].attempts[k].state = "ok"

C6_Witness ==
    \E a, b, c \in 1..Len(tasks) :
        /\ a < b /\ b < c
        /\ Multi(a) /\ Len(tasks[a].attempts) = 1
        /\ tasks[a].attempts[1].state = "pending"
        /\ Multi(b) /\ tasks[b].pc = "ok" /\ Len(tasks[b].attempts) = 2
        /\ Multi(c) /\ Len(tasks[c].attempts) = 2
        /\ tasks[c].attempts[1].state = "ok"
        /\ tasks[c].attempts[2].state = "pending"

\* The environment gives no username, or no secret: absent or empty under
\* both of its names.
NoUsername == env.USERNAME \in {None, <<>>} /\ env.username \in {None, <<>>}

NoSecret == env.PASSWORD \in {None, <<>>} /\ env.password \in {None, <<>>}

\* C7: without a username or without a secret, main() ends with a non-zero
\* status without opening the engine connection and without dispatching a
\* coroutine, so the run makes no publish attempt.
C7_CredentialGate ==
    (NoUsername \/ NoSecret) =>
        /\ connection = "none"
        /\ tasks = <<>>
        /\ pc \in {"start", "exited"}
        /\ pc = "exited" => exitCode \notin {-1, 0}

C7_Witness ==
    /\ pc = "exited"
    /\ NoUsername /\ ~NoSecret
    /\ env.USERNAME = <<>>
    /\ exitCode = 1

\* Some publish of coroutine i raised.
PublishRaised(i) ==
    \E k \in 1..Len(tasks[i].attempts) : tasks[i].attempts[k].state = "error"

\* The exception the engine raised from coroutine i's last publish.
EngineError(i) == tasks[i].attempts[Len(tasks[i].attempts)].error

\* The logical tag of coroutine i, {os}_python_{py}_cuda_{cuda}_{framework}.
LogicalTag(i) ==
    tasks[i].os_version \o <<"_","p","y","t","h","o","n","_">>
    \o tasks[i].python_version \o <<"_","c","u","d","a","_">>
    \o tasks[i].cuda_version \o <<"_">> \o tasks[i].framework

\* What the orchestrator holds for coroutine i once gather has returned.
Outcome(i) == results[i]

FailedRunReported ==
    \/ pc = "sysexit"
    \/ pc = "exited" /\ tasks # <<>> /\ exitCode \notin {-1, 0}

EntryFmt == "  - {}"

\* The m-th failed coroutine in list order.
NthFailed(m) ==
    CHOOSE i \in FailedSet : Cardinality({ j \in FailedSet : j <= i }) = m

EndedOnFailures == pc = "exited" /\ failures # <<>>

EndedOnCredentials == pc = "exited" /\ cfg = NoCfg

\* C10 as stated: the exit status of a run with failed images differs from
\* the exit status main() gives for missing credentials.
C10_DistinguishableExit == EndedOnFailures => exitCode # CredentialExitCode

\* C10 amended: a run with failed images and a run with missing credentials
\* both end with the same non-zero exit status, 1; the status does not tell
\* them apart.
C10_SameExitStatus ==
    /\ EndedOnFailures => exitCode = 1
    /\ EndedOnCredentials => exitCode = 1 /\ failures = <<>>

C10_Witness == EndedOnFailures /\ exitCode = 1 /\ Len(failures) < Len(tasks)

\* ------------------------------------------- direct calls of the tag deriver
\* The platform argument left out of a call.
Omitted == <<"<omitted>">>

\* Binding of the parameter platform: its default is None (line 45).
BindPlatform(p) == IF p = Omitted THEN None ELSE p

\* What a call did: it returned a value.
Returned(v) == [ kind |-> "return", value |-> v ]

SeqToSet(xs) == { xs[i] : i \in 1..Len(xs) }

\* The argument lists drawn from the configured matrix, with a configured
\* platform or none.
ConfiguredTuples ==
    { <<o, c, f[1], p, pl>> :
        o \in SeqToSet(OS_VERSIONS), c \in SeqToSet(CUDA_VERSIONS),
        f \in SeqToSet(FRAMEWORK_CONFIGS), p \in SeqToSet(PYTHON_VERSIONS),
        pl \in SeqToSet(PLATFORMS) \cup {None} }

\* Platform arguments: left out, None, empty, well formed, without a slash,
\* with two slashes, with nothing after the slash.
PlatformArgs ==
    SeqToSet(PLATFORMS) \cup
    { Omitted, None, <<>>, <<"a","m","d","6","4">>,
      <<"l","/","a","/","v">>, <<"l","i","n","u","x","/">> }

\* Argument lists of any shape.
AnyTuples ==
    { <<o, c, f, p, pl>> :
        o \in SeqToSet(OS_VERSIONS) \cup { <<>> },
        c \in SeqToSet(CUDA_VERSIONS) \cup { <<"1","2">> },
        f \in { FRAMEWORK_CONFIGS[1][1], FRAMEWORK_CONFIGS[2][1],
                FRAMEWORK_CONFIGS[3][1], <<"b","_","a">> },
        p \in SeqToSet(PYTHON_VERSIONS),
        pl \in PlatformArgs }

\* The direct calls of get_image_reference: one call with any arguments, two
\* calls with arguments of the configured matrix, or three calls that differ
\* in how they give no platform.
TagCalls ==
    { [ fn |-> "get_image_reference", args |-> <<a>> ] : a \in AnyTuples }
    \cup
    { [ fn |-> "get_image_reference", args |-> <<a, b>> ] :
        a \in ConfiguredTuples, b \in ConfiguredTuples }
    \cup
    { [ fn |-> "get_image_reference",
        args |-> << <<a[1], a[2], a[3], a[4], Omitted>>,
                    <<a[1], a[2], a[3], a[4], None>>,
                    <<a[1], a[2], a[3], a[4], <<>> >> >> ] :
        a \in { t \in AnyTuples : t[5] = Omitted } }

NoEnv == [ USERNAME |-> None, username |-> None, PASSWORD |-> None,
           password |-> None, MULTI_ARCH |-> None, REPOSITORY |-> None ]

FullMatrix == [ os |-> OS_VERSIONS, cuda |-> CUDA_VERSIONS,
                fw |-> FRAMEWORK_CONFIGS, py |-> PYTHON_VERSIONS ]

InitTag ==
    /\ call \in TagCalls
    /\ ret = <<>>
    /\ env = NoEnv
    /\ matrix = FullMatrix
    /\ pc = "call"
    /\ cfg = NoCfg
    /\ connection = "none"
    /\ tasks = <<>>
    /\ results = <<>>
    /\ failures = <<>>
    /\ mainLog = <<>>
    /\ exitCode = -1

\* The next call of get_image_reference is made and returns.
CallGetImageReference ==
    /\ call.fn = "get_image_reference"
    /\ Len(ret) < Len(call.args)
    /\ LET a == call.args[Len(ret) + 1]
       IN  ret' = Append(ret, Returned(
                      get_image_reference(a[1], a[2], a[3], a[4],
                                          BindPlatform(a[5]))))
    /\ UNCHANGED <<env, matrix, pc, cfg, connection, tasks, results, failures,
                   mainLog, exitCode, call>>

NextTag == CallGetImageReference

SpecTag == InitTag /\ [][NextTag]_vars

\* The canonical tag without a suffix, spelled out.
BaseTag(a) ==
    a[1] \o <<"_","p","y","t","h","o","n","_">> \o a[4]
    \o <<"_","c","u","d","a","_">> \o a[2] \o <<"_">> \o a[3]

\* s ends with suffix.
EndsWith(s, suffix) ==
    /\ Len(s) >= Len(suffix)
    /\ SubSeq(s, Len(s) - Len(suffix) + 1, Len(s)) = suffix

\* The positions of the slashes of a platform string.
Slashes(p) == { i \in 1..Len(p) : p[i] = "/" }

\* C11: two distinct argument lists of the configured matrix (platform of
\* PLATFORMS or none) give distinct tags.
C11_TagsDistinct ==
    (Len(call.args) = 2 /\ Len(ret) = 2 /\ call.args[1] # call.args[2]) =>
        ret[1].value # ret[2].value

C11_Witness ==
    /\ Len(call.args) = 2 /\ Len(ret) = 2
    /\ call.args[1][2] # call.args[2][2]
    /\ call.args[1][5] = None /\ call.args[2][5] = PLATFORMS[2]
    /\ ret[1].kind = "return" /\ ret[2].kind = "return"

\* C12: without a platform the call returns exactly
\* os_python_{python}_cuda_{cuda}_{framework}, the versions verbatim; with a
\* platform osname/arch it returns that text followed by _ and the part of
\* the platform after its slash.
C12_CanonicalForm ==
    \A n \in 1..Len(ret) :
        LET a == call.args[n]
        IN  /\ a[5] \in {Omitted, None} =>
                 ret[n] = Returned(BaseTag(a))
            /\ (a[5] \notin {Omitted, None} /\ Cardinality(Slashes(a[5])) = 1) =>
                 LET cut == CHOOSE i \in Slashes(a[5]) : TRUE
                 IN  ret[n] = Returned(BaseTag(a) \o <<"_">>
                                       \o SubSeq(a[5], cut + 1, Len(a[5])))

C12_Witness ==
    /\ Len(ret) = 1
    /\ call.args[1][5] = PLATFORMS[2]
    /\ call.args[1][3] = <<"b","_","a">>
    /\ EndsWith(ret[1].value, <<"_","b","_","a","_","a","r","m","6","4">>)

\* C13: a call with a non-empty platform that has no slash fails with a
\* validation error and returns no tag.
C13_MalformedPlatformRejected ==
    \A n \in 1..Len(ret) :
        LET p == call.args[n][5]
        IN  (p \notin {Omitted, None, <<>>} /\ Slashes(p) = {}) =>
                ret[n].kind = "raise"

\* C14: leaving the platform out, passing None and passing "" give the same
\* tag, that tag ends with the framework name, and a call's tag differs from
\* the un-suffixed form only when a non-empty platform was passed.
C14_NoPlatformSameTag ==
    /\ \A n \in 1..Len(ret) :
         /\ call.args[n][5] \in {Omitted, None, <<>>} =>
               /\ ret[n].kind = "return"
               /\ EndsWith(ret[n].value, call.args[n][3])
               /\ Len(ret[n].value) = Len(BaseTag(call.args[n]))
         /\ ret[n].value # BaseTag(call.args[n]) =>
               call.args[n][5] \notin {Omitted, None, <<>>}
    /\ (Len(call.args) = 3 /\ Len(ret) = 3) =>
         ret[1] = ret[2] /\ ret[2] = ret[3]

C14_Witness ==
    /\ Len(call.args) = 3 /\ Len(ret) = 3
    /\ call.args[3][5] = <<>>
    /\ ret[3].value = BaseTag(call.args[1])

\* ------------------------------------------------ dispatch of the full matrix
\* Every configured matrix: leading parts of the four configuration lists, up
\* to the lists themselves.
AllMatrices ==
    [ os : Prefixes(OS_VERSIONS), cuda : Prefixes(CUDA_VERSIONS),
      fw : Prefixes(FRAMEWORK_CONFIGS), py : Prefixes(PYTHON_VERSIONS) ]

InitMatrix ==
    /\ env \in EnvChoices
    /\ matrix \in AllMatrices
    /\ pc = "start"
    /\ cfg = NoCfg
    /\ connection = "none"
    /\ tasks = <<>>
    /\ results = <<>>
    /\ failures = <<>>
    /\ mainLog = <<>>
    /\ exitCode = -1
    /\ call = NoCall
    /\ ret = <<>>

\* main() up to its await of asyncio.gather.
NextMatrix ==
    \/ CredentialGate
    \/ Connect
    \/ Dispatch

SpecMatrix == InitMatrix /\ [][NextMatrix]_vars

\* The destinations coroutine t publishes to when no publish fails, in the
\* order of its publish calls (lines 184-231).
PublishPlan(t) ==
    IF IsMultiPlatform(t.platforms)
    THEN [ k \in 1..Len(t.platforms) |-> PlatformAttempt(t, k).dest ]
    ELSE << SingleAttempt(t, get_image_reference(t.os_version, t.cuda_version,
                t.framework, t.python_version, None)).dest >>

\* The cells of the configured matrix.
MatrixCells ==
    { <<o, c, f, p>> :
        o \in SeqToSet(matrix.os), c \in SeqToSet(matrix.cuda),
        f \in SeqToSet(matrix.fw), p \in SeqToSet(matrix.py) }

\* The coroutines dispatched for a cell.
TasksOfCell(x) ==
    { i \in 1..Len(tasks) :
        /\ tasks[i].os_version = x[1]
        /\ tasks[i].cuda_version = x[2]
        /\ tasks[i].framework = x[3][1]
        /\ tasks[i].framework_packages = x[3][2]
        /\ tasks[i].python_version = x[4] }

\* C15: main() dispatches exactly one coroutine per cell of
\* OS_VERSIONS x CUDA_VERSIONS x FRAMEWORK_CONFIGS x PYTHON_VERSIONS: their
\* number is the product of the four sizes (12 for the default matrix), no
\* cell is dispatched twice or skipped, in single- and in multi-platform runs.
C15_MatrixExpansion ==
    pc = "gather" =>
        /\ Len(tasks) = Len(matrix.os) * Len(matrix.cuda) * Len(matrix.fw)
                        * Len(matrix.py)
        /\ \A x \in MatrixCells : Cardinality(TasksOfCell(x)) = 1
        /\ \A i \in 1..Len(tasks) : \E x \in MatrixCells : i \in TasksOfCell(x)
        /\ matrix = FullMatrix => Len(tasks) = 12

C15_Witness ==
    /\ pc = "gather"
    /\ matrix = FullMatrix
    /\ Len(tasks) = 12
    /\ cfg.platforms = PLATFORMS

\* The destinations of coroutine i as a set, its un-qualified tag included.
DestSet(i) ==
    SeqToSet(PublishPlan(tasks[i])) \cup { UnqualifiedDest(i) }

\* C19: in a run of main(), single- or multi-platform, the publishes of the
\* dispatched coroutines all have different destinations: a coroutine's own
\* publishes differ from one another, the architecture-qualified ones differ
\* from its un-qualified tag, and no destination of one coroutine, its
\* un-qualified tag included, is a destination of another.
C19_DistinctDestinations ==
    pc = "gather" =>
        /\ \A i \in 1..Len(tasks) :
             LET plan == PublishPlan(tasks[i])
             IN  /\ \A k, l \in 1..Len(plan) : k # l => plan[k] # plan[l]
                 /\ Len(plan) > 1 =>
                       \A k \in 1..Len(plan) : plan[k] # UnqualifiedDest(i)
                 /\ Len(plan) = 1 => plan[1] = UnqualifiedDest(i)
        /\ \A i, j \in 1..Len(tasks) :
             i # j => DestSet(i) \cap DestSet(j) = {}

C19_Witness ==
    /\ pc = "gather"
    /\ Len(tasks) = 12
    /\ \E i \in 1..Len(tasks) : Len(PublishPlan(tasks[i])) = 2

\* The publishes a coroutine has made are the first entries of its plan.
AttemptsFollowPlan ==
    \A i \in 1..Len(tasks) :
        /\ Len(tasks[i].attempts) <= Len(PublishPlan(tasks[i]))
        /\ \A k \in 1..Len(tasks[i].attempts) :
               tasks[i].attempts[k].dest = PublishPlan(tasks[i])[k]

\* ------------------------------------ direct calls of build_and_publish_image
\* CUDA versions the configuration test accepts: two components or more.
CudaArgs ==
    SeqToSet(CUDA_VERSIONS) \cup
    { <<"1","2",".","4">>, <<"1","2",".","4",".","1",".","2">> }

\* The platforms argument: None, empty, one platform, several.
PlatformsArgs ==
    { NoneList, <<>>, <<PLATFORMS[1]>>, <<PLATFORMS[2]>>, PLATFORMS,
      <<PLATFORMS[2], PLATFORMS[1]>> }

\* One coroutine build_and_publish_image(...) on an open connection.
PublisherCalls ==
    { <<NewTask(o, c, f, p,
                [ repository |-> DefaultRepository, username |-> UserValue,
                  password |-> TokenValue, platforms |-> pl ])>> :
        o \in SeqToSet(OS_VERSIONS), c \in CudaArgs,
        f \in SeqToSet(FRAMEWORK_CONFIGS), p \in SeqToSet(PYTHON_VERSIONS),
        pl \in PlatformsArgs }

InitPublisher ==
    /\ tasks \in PublisherCalls
    /\ call = [ fn |-> "build_and_publish_image", args |-> <<>> ]
    /\ ret = <<>>
    /\ env = NoEnv
    /\ matrix = FullMatrix
    /\ pc = "call"
    /\ cfg = NoCfg
    /\ connection = "open"
    /\ results = <<>>
    /\ failures = <<>>
    /\ mainLog = <<>>
    /\ exitCode = -1

NextPublisher ==
    \/ \E i \in 1..Len(tasks) : TaskStart(i)
    \/ \E i \in 1..Len(tasks) : PublishAck(i)
    \/ \E i \in 1..Len(tasks) : \E cause \in Causes : PublishError(i, cause)

SpecPublisher == InitPublisher /\ [][NextPublisher]_vars

\* More than one platform target is configured for coroutine i.
SeveralPlatforms(i) ==
    tasks[i].platforms \notin {NoneList, <<>>} /\ Len(tasks[i].platforms) > 1

\* Coroutine i went into the multi-platform branch.
MultiPathTaken(i) ==
    \E n \in 1..Len(tasks[i].log) :
        tasks[i].log[n].fmt = "Building multi-platform image for: {}"

\* C16: a coroutine takes the multi-platform branch exactly when more than
\* one platform is configured; with no platform or one platform it makes
\* exactly one publish, to ghcr.io/{username}/{repository}:{tag} with the
\* un-qualified tag, and pushes no architecture-qualified tag.
C16_ModeSelection ==
    \A i \in 1..Len(tasks) :
        tasks[i].pc # "new" =>
            /\ MultiPathTaken(i) <=> SeveralPlatforms(i)
            /\ ~SeveralPlatforms(i) =>
                  /\ Len(tasks[i].attempts) = 1
                  /\ tasks[i].attempts[1].dest = UnqualifiedDest(i)
            /\ SeveralPlatforms(i) =>
                  tasks[i].attempts[1].dest # UnqualifiedDest(i)

C16_Witness ==
    \E i \in 1..Len(tasks) :
        /\ tasks[i].platforms = <<PLATFORMS[2]>>
        /\ tasks[i].pc = "ok"
        /\ Len(tasks[i].attempts) = 1
        /\ ~MultiPathTaken(i)

\* The first two dot-separated components of a version, joined by a dot.
MajorMinor(v) ==
    LET dots == { i \in 1..Len(v) : v[i] = "." }
    IN  IF Cardinality(dots) < 2 THEN v
        ELSE LET second == CHOOSE i \in dots :
                               Cardinality({ j \in dots : j < i }) = 1
             IN  SubSeq(v, 1, second - 1)

\* C18: for every CUDA version of two components or more, the conda package
\* list starts with cuda-toolkit={major.minor of the version}, followed by
\* the framework package exactly when its name is non-empty.
C18_ToolkitPin ==
    \A i \in 1..Len(tasks) :
        \A k \in 1..Len(tasks[i].attempts) :
            LET pin == <<"c","u","d","a","-","t","o","o","l","k","i","t","=">>
                       \o MajorMinor(tasks[i].cuda_version)
            IN  tasks[i].attempts[k].container.conda_packages_str
                  = IF tasks[i].framework_packages # <<>>
                    THEN pin \o <<" ">> \o tasks[i].framework_packages
                    ELSE pin

\* ------------------------------------------------------- task independence
\* The number of publishes coroutine i makes when none fails.
PublishesNeeded(i) == IF Multi(i) THEN Len(tasks[i].platforms) ELSE 1

\* The outcome of coroutine i is decided by the answers to its own publishes:
\* it failed exactly when one of them raised, it succeeded exactly when all
\* of them were made and acknowledged, gather holds for it the exception its
\* own publish raised or None, and it runs on main's configuration.
OwnPublishesDecide(i) ==
    /\ tasks[i].pc = "failed" <=> PublishRaised(i)
    /\ tasks[i].pc = "ok" <=>
          /\ Len(tasks[i].attempts) = PublishesNeeded(i)
          /\ \A k \in 1..Len(tasks[i].attempts) : tasks[i].attempts[k].state = "ok"
    /\ results # <<>> =>
          results[i] = IF PublishRaised(i) THEN EngineError(i) ELSE PyNone
    /\ tasks[i].platforms = cfg.platforms
    /\ tasks[i].username = cfg.username
    /\ tasks[i].password = cfg.password
    /\ tasks[i].repository = cfg.repository

\* A step of one coroutine changes neither another coroutine nor the state
\* shared by all of them.
StepTouchesOneTask ==
    \A i \in 1..Len(tasks) :
        (Len(tasks') = Len(tasks) /\ tasks'[i] # tasks[i]) =>
            /\ \A j \in 1..Len(tasks) : j # i => tasks'[j] = tasks[j]
            /\ cfg' = cfg
            /\ connection' = connection
            /\ env' = env

\* C17: the coroutines share only state that none of them changes, so in
\* every interleaving each coroutine's outcome is decided by the answers to
\* its own publishes, and the failures main() collects are those of the
\* coroutines whose own publish raised, whatever the order of the steps.
C17_TaskIndependence ==
    /\ [](\A i \in 1..Len(tasks) : OwnPublishesDecide(i))
    /\ [](results # <<>> =>
            Len(failures) = Cardinality({ i \in 1..Len(tasks) : PublishRaised(i) }))
    /\ [][StepTouchesOneTask]_vars

C17_Witness ==
    /\ pc = "exited"
    /\ Len(tasks) >= 3
    /\ \E i, j, k \in 1..Len(tasks) :
         /\ i < j /\ j < k
         /\ PublishRaised(i) /\ ~PublishRaised(j) /\ PublishRaised(k)
         /\ results[j] = PyNone /\ tasks[j].pc = "ok"
         /\ Len(tasks[j].attempts) = 2
====
